---- MODULE Spec2Model ----
(***************************************************************************)
(* The tools of netsuite-windows that run their work in a thread started   *)
(* by BaseTool.run_in_thread and cancelled through BaseTool.stop_event:    *)
(* the sequential port scan of PortScannerTool._scan_thread, the thread-   *)
(* per-host discovery of NetworkDiscoveryTool._scan_network / _ping_host,  *)
(* the lookups of DNSLookupTool, the monitor loop of BandwidthMonitorTool  *)
(* and the magic packet and MAC history of WakeOnLanTool; and the          *)
(* ConfigManager of utils.                                                 *)
(*                                                                         *)
(* One behaviour follows one object (tool).  The objects share no field,   *)
(* so each is analysed on its own.  Spec follows a scanner through one run *)
(* with a valid timeout; SpecAnyTimeout lets the Timeout field hold any    *)
(* text; SpecAfterStop starts the run with the stop flag set; SpecTwice    *)
(* runs the same batch twice on a network on which every connection        *)
(* succeeds; SpecFair is Spec with every thread scheduled; SpecLookup is   *)
(* the discovery with reverse lookups that may fail in any way;            *)
(* SpecRestart is the port scanner with Scan clicked whenever the button   *)
(* is enabled and the worker's finally clause taken one widget call at a   *)
(* time.  SpecDns, SpecMonitor and SpecWol follow the DNS tool, the        *)
(* bandwidth monitor and the Wake-on-LAN tool through clicks at any        *)
(* moment; SpecConfig follows the ConfigManager objects of one process.    *)
(*                                                                         *)
(* Of the Tk widgets the model keeps the output lines that matter (events, *)
(* shown, output), the status text, the state of the Scan button, the text *)
(* of the monitor button and the rows of the MAC listbox.  A widget call   *)
(* made by a worker thread is carried out by the Tk main loop between two  *)
(* callbacks, so a callback such as stop_scan is one step, and a callback  *)
(* can run while a worker waits in a widget call.  The sources are         *)
(* modelled statement by statement as they are written, with two readings: *)
(* port_scanner.py, dns_lookup.py, bandwidth_monitor.py and wol_tool.py    *)
(* use the name tk without importing it (and ttk.StringVar), and line 120  *)
(* of port_scanner.py holds a malformed f-string, so the name tk is read   *)
(* as tkinter, ttk.StringVar as tkinter.StringVar and line 120 as the      *)
(* output line it is meant to be.                                          *)
(*                                                                         *)
(* Steps are atomic up to one access of shared state (stop_event, the      *)
(* result list, a thread's liveness, mac_history).  Every connect, recv    *)
(* and ping subprocess comes to an end: each runs under a timeout.         *)
(***************************************************************************)
EXTENDS Integers, Sequences, FiniteSets, Bags, TLC

\* ---------------------------------------------------------------- bounds
\* Hosts of the scanned network, network.hosts() = 1..n with n <= MaxHosts.
MaxHosts == 3
\* The thread ceiling of _scan_network.  The source sets it to 50
\* (network_discovery.py:136); the model runs it scaled down, below MaxHosts.
max_threads == 2
\* Highest port of a typed port range; ranges are drawn from 21..MaxPort.
MaxPort == 23
\* Calls of run_in_thread on one tool object, where a behaviour may hold
\* several.
MaxCalls == 3
\* Iterations of the monitor loop of the bandwidth monitor in one run.
MaxUpdates == 2
\* ConfigManager objects constructed in one behaviour.
MaxInstances == 2

\* ------------------------------------------------------- program constants
\* network_discovery.py:194
ProbePorts == <<80, 443, 22, 445>>
\* port_scanner.py:157
BannerPorts == {21, 22, 25, 80, 110, 143, 443, 3306, 3389, 8080}

Hosts == 1..MaxHosts
PortRange == 21..MaxPort

\* Texts of the Timeout field: a positive number, the field's initial value
\* (port_scanner.py:66, network_discovery.py:34); a text that is no number;
\* zero; a negative number.
TimeoutTexts == {"1", "abc", "0", "-1"}
\* The texts that are a positive number.
PositiveTimeouts == {"1"}

\* try: timeout = float(self.timeout_var.get()) except ValueError:
\* timeout = 1.0 (port_scanner.py:113-116, network_discovery.py:95-98).
ParseTimeout(text) ==
    CASE text = "1" -> 1
      [] text = "0" -> 0
      [] text = "-1" -> -1
      [] OTHER -> 1

\* Texts of the Interval field of the bandwidth monitor: the field's initial
\* value (bandwidth_monitor.py:35), a number below the range, one above it,
\* a text that is no number, and the text float() reads as not-a-number.
IntervalTexts == {"2", "0.1", "100", "abc", "nan"}

\* float(text): the number in tenths, not-a-number, or ValueError.
ParseFloat(text) ==
    CASE text = "2"   -> [raises |-> FALSE, nan |-> FALSE, tenths |-> 20]
      [] text = "0.1" -> [raises |-> FALSE, nan |-> FALSE, tenths |-> 1]
      [] text = "100" -> [raises |-> FALSE, nan |-> FALSE, tenths |-> 1000]
      [] text = "nan" -> [raises |-> FALSE, nan |-> TRUE, tenths |-> 0]
      [] OTHER        -> [raises |-> TRUE, nan |-> FALSE, tenths |-> 0]

\* x < c and x > c on floats: every comparison with not-a-number is false.
FloatLess(x, c) == ~x.nan /\ x.tenths < c
FloatGreater(x, c) == ~x.nan /\ x.tenths > c

\* ConfigManager: two of the sections of DEFAULT_CONFIG (lines 14-37) with
\* two of their keys, and a section that is not among the defaults.
DefaultSections == {"ping", "port_scanner"}
Sections == DefaultSections \cup {"proxy"}
Keys == {"timeout", "count"}
\* A key that a dict does not hold.
Nil == -1
\* 'ping': {'count': 4, 'timeout': 2}, 'port_scanner': {'timeout': 1}
DefaultValues ==
    [s \in DefaultSections |->
        IF s = "ping" THEN [k \in Keys |-> IF k = "count" THEN 4 ELSE 2]
        ELSE [k \in Keys |-> IF k = "timeout" THEN 1 ELSE Nil]]
\* The values callers of set() pass.
SetValues == {9}
Instances == 1..MaxInstances
Owners == 0..MaxInstances
NoSection == -1
EmptyDict == [k \in Keys |-> Nil]
\* config.ini does not exist.
NoFile == [exists |-> FALSE, sections |-> {}, data |-> [s \in Sections |-> EmptyDict]]

\* WakeOnLanTool: what the MAC Address field can hold.  The first two are
\* spellings of one address, the last one is not an address.
MacTexts == {"AA:BB:CC:DD:EE:01", "aa-bb-cc-dd-ee-01", "router"}
\* _is_valid_mac (lines 134-143)
IsValidMac(mac) == mac # "router"
\* mac_address.replace('-', ':').upper() (line 97)
CleanMac(mac) == IF mac = "aa-bb-cc-dd-ee-01" THEN "AA:BB:CC:DD:EE:01" ELSE mac
\* What the Name field can hold.
NameTexts == {"", "pc"}
\* name or f"Device {len(self.mac_history) + 1}" (lines 124, 154-155)
NameOr(name, history) == IF name # "" THEN name ELSE "Device " \o ToString(Len(history) + 1)

VARIABLES
    tool,          \* class of the tool object that is followed
    stop_event,    \* BaseTool.stop_event (threading.Event)
    worker,        \* position of BaseTool.worker_thread ("none": never started)
    ports,         \* _scan_thread: the ports argument
    port_i,        \* _scan_thread: index of the port the for loop is at
    open_ports,    \* _scan_thread: open_ports
    scan_log,      \* every value _scan_port has returned, as <<port, open>>
    sockets,       \* sockets created and not yet closed
    unref,         \* of those, the ones no longer referenced by any frame
    num_hosts,     \* _scan_network: number of addresses of network.hosts()
    ip,            \* _scan_network: index of the host the for loop is at
    threads,       \* _scan_network: threads
    task,          \* one _ping_host thread per host
    hosts_found,   \* _scan_network: hosts_found, as the bag of its entries (the
                   \* list is read through len(), sorted() and iteration only)
    events,        \* report lines appended to the output by the run
    shown,         \* targets the output lists as open / active
    stop_inflight, \* targets whose probe was in flight when stop was requested
    done_at_error, \* targets found when the except clause reported
    status,        \* text of the status bar (gui.set_status)
    scan_btn,      \* state of the tool's Scan button; the Stop button is its
                   \* opposite on every path
    timeout_var,   \* text of the Timeout field (timeout_var)
    timeout,       \* the timeout argument run_tool has passed to the worker
    attempts,      \* connections begun in this run, per (host, port) target
    run,           \* number of runs started on the tool object
    prev,          \* what the run before this one ended with
    orphans,       \* _ping_host threads of the run before this one that were
                   \* still alive when this one started
    transport,     \* the network the probes meet: "any"; "always_up" (every
                   \* connection succeeds, every ping is answered); "rdns_any"
                   \* (as "any", and a reverse lookup may fail)
    scanned,       \* _scan_thread: scanned
    strays,        \* worker threads alive that worker_thread no longer refers to
    ret_log,       \* the values run_in_thread has returned, call by call
    output,        \* DNS lookup, bandwidth monitor: the lines of the output area
    record_i,      \* lookup_all: index of the record type the for loop is at
    monitor_btn,   \* bandwidth monitor: text of the Start/Stop button
    interval_var,  \* text of the Interval field
    interval,      \* _monitor_bandwidth: the interval argument
    iteration,     \* _monitor_bandwidth: iteration
    samples,       \* calls of _get_interface_stats made by the running monitor
    observed,      \* the monitor loop has found stop_event set
    DEFAULT_CONFIG,\* ConfigManager.DEFAULT_CONFIG: section -> its dict object
    dicts,         \* the dict objects that hold a section, by <<owner, section>>;
                   \* owner 0 is the class, owner i the i-th ConfigManager
    config,        \* self.config of each ConfigManager: section -> the owner of
                   \* the dict object it refers to, or NoSection
    made,          \* ConfigManager objects constructed so far
    config_file,   \* what config.ini holds
    mac_history,   \* WakeOnLanTool.mac_history: entries [mac, name]
    history_listbox, \* the rows of the listbox, each the entry it was made from
    mac_address,   \* _send_wol_packet: its local mac_address
    entry_i        \* _update_history_list in the worker: the for loop's position

vars == <<tool, stop_event, worker, ports, port_i, open_ports, scan_log, sockets,
          unref, num_hosts, ip, threads, task, hosts_found, events, shown,
          stop_inflight, done_at_error, status, scan_btn,
          timeout_var, timeout, attempts, run, prev, orphans, transport,
          scanned, strays, ret_log, output, record_i, monitor_btn, interval_var,
          interval, iteration, samples, observed,
          DEFAULT_CONFIG, dicts, config, made, config_file, mac_history,
          history_listbox, mac_address, entry_i>>

psVars == <<ports, port_i, open_ports, scan_log>>
ndVars == <<num_hosts, ip, threads, task, hosts_found>>
auxVars == <<done_at_error, status, scan_btn, timeout_var, timeout, attempts>>
runVars == <<run, prev, orphans, transport>>
threadVars == <<strays, ret_log>>
dnsVars == <<output, record_i>>
\* The variables of the tools other than the two scanners.
bwVars == <<monitor_btn, interval_var, interval, iteration, samples, observed>>
cfgVars == <<DEFAULT_CONFIG, dicts, config, made, config_file>>
wolVars == <<mac_history, history_listbox, mac_address, entry_i>>
toolVars == <<dnsVars, bwVars, cfgVars, wolVars>>
extVars == <<scanned, threadVars, toolVars>>
\* The variables of the two scanners, but for the status bar.
scanOnly == <<psVars, ndVars, runVars, scanned, sockets, unref, events, shown,
              stop_inflight, done_at_error, scan_btn, timeout_var, timeout, attempts>>
scanVars == <<scanOnly, status>>

\* The (host, port) pairs a run can connect to: the typed host (written 0)
\* with a port of the range, or a host of the network with a probe port.
Targets == ({0} \X PortRange) \cup (Hosts \X {ProbePorts[i] : i \in 1..Len(ProbePorts)})
NoAttempts == [t \in Targets |-> 0]

\* One more connection to target t has begun.
Connected(a, t) == [a EXCEPT ![t] = @ + 1]

\* A _ping_host thread that has not been created.
NoTask ==
    [pc |-> "none", port |-> 0, sawStop |-> FALSE, starts |-> 0, up |-> "none",
     answered |-> FALSE, hostname |-> "unset"]

Range(s) == {s[i] : i \in 1..Len(s)}
Count(s, x) == Cardinality({i \in 1..Len(s) : s[i] = x})

\* Thread.is_alive() of the _ping_host thread of host h.
IsAlive(h) == task[h].pc \notin {"none", "done"}
InFlight == {h \in Hosts : IsAlive(h)}

\* BaseTool.is_running / the guard of run_in_thread.
WorkerAlive == worker \notin {"none", "dead"}

\* The classes of the objects that are followed.
ToolClasses ==
    {"PortScannerTool", "NetworkDiscoveryTool", "DNSLookupTool", "BandwidthMonitorTool",
     "ConfigManager", "WakeOnLanTool"}

\* The tool object after construction, facing the network tr.
Constructed(tr) ==
    /\ tool \in ToolClasses
    /\ stop_event = FALSE
    /\ worker = "none"
    /\ ports = <<>>
    /\ port_i = 0
    /\ open_ports = <<>>
    /\ scan_log = <<>>
    /\ sockets = 0
    /\ unref = 0
    /\ num_hosts = 0
    /\ ip = 0
    /\ threads = <<>>
    /\ task = [h \in Hosts |-> NoTask]
    /\ hosts_found = EmptyBag
    /\ events = {}
    /\ shown = {}
    /\ stop_inflight = {}
    /\ done_at_error = {}
    /\ status = "Ready"
    /\ scan_btn = "normal"
    /\ timeout_var = "1"
    /\ timeout = 1
    /\ attempts = NoAttempts
    /\ run = 0
    /\ prev = [complete |-> FALSE, found |-> <<>>]
    /\ orphans = [h \in Hosts |-> NoTask]
    /\ transport = tr
    /\ scanned = 0
    /\ strays = 0
    /\ ret_log = <<>>
    /\ output = <<>>
    /\ record_i = 0
    /\ monitor_btn = "Start Monitor"
    /\ interval_var = "2"
    /\ interval = ParseFloat("2")
    /\ iteration = 0
    /\ samples = 0
    /\ observed = FALSE
    /\ DEFAULT_CONFIG = [s \in DefaultSections |-> 0]
    /\ dicts = [d \in Owners \X Sections |->
                  IF d[1] = 0 /\ d[2] \in DefaultSections
                    THEN DefaultValues[d[2]] ELSE EmptyDict]
    /\ config = [i \in Instances |-> [s \in Sections |-> NoSection]]
    /\ made = 0
    /\ config_file = NoFile
    /\ mac_history = <<>>
    /\ history_listbox = <<>>
    /\ mac_address = ""
    /\ entry_i = 0

Init == Constructed("any") /\ tool \in {"PortScannerTool", "NetworkDiscoveryTool"}

\* The tool object after construction, facing a network on which every
\* connection succeeds.
InitAlwaysUp ==
    Constructed("always_up") /\ tool \in {"PortScannerTool", "NetworkDiscoveryTool"}

\* ------------------------------------------------------------ UI thread

\* Variant of ClearEvent: run_in_thread leaves the event as it finds it.
ClearEvent_Kept == stop_event

\* self.stop_event.clear() in run_in_thread (base_tool.py:107): the value
\* of the event after it.
ClearEvent == FALSE

\* BaseTool.stop() called while no worker runs: the event is set.
Stop ==
    /\ worker = "none"
    /\ ~stop_event
    /\ stop_event' = TRUE
    /\ UNCHANGED <<extVars, runVars, auxVars, tool, worker, psVars, ndVars, sockets, unref, events, shown,
                   stop_inflight>>

\* NetworkDiscoveryTool.run_tool with a well-formed range of n hosts: the
\* output is cleared, Scan is disabled and Stop enabled, and the run_in_thread
\* call it ends with: refuse while a worker is alive, clear stop_event, start
\* _scan_network (which parses the range and sets up its locals).
\* Variant of FreshList: the list of the run before is used again.
FreshList_Reused == hosts_found

\* hosts_found = [] at the start of _scan_network (line 128).
FreshList == EmptyBag

NdRun(texts) ==
    /\ tool = "NetworkDiscoveryTool"
    /\ ~WorkerAlive
    /\ worker = "none"
    /\ \E n \in 1..MaxHosts : num_hosts' = n
    /\ \E text \in texts :
         /\ timeout_var' = text
         /\ timeout' = ParseTimeout(text)
    /\ events' = {}
    /\ shown' = {}
    /\ scan_btn' = "disabled"
    /\ stop_event' = ClearEvent
    /\ worker' = "nd_for"
    /\ ip' = 1
    /\ threads' = <<>>
    /\ hosts_found' = FreshList
    /\ attempts' = NoAttempts
    /\ run' = 1
    /\ ret_log' = Append(ret_log, TRUE)
    /\ UNCHANGED <<toolVars, scanned, strays, tool, psVars, sockets, unref, task, stop_inflight, done_at_error,
                   status, prev, orphans, transport>>

\* run_tool with a positive number in the Timeout field.
NdRunTool == NdRun(PositiveTimeouts)

\* run_tool with any text in the Timeout field.
NdRunToolAnyTimeout == NdRun(TimeoutTexts)

\* run_tool called right after stop(): the event is set as the run starts.
NdRunToolAfterStop == stop_event /\ NdRunTool

\* run_tool called a second time, with the fields as they were, after the
\* worker of the first run has ended.  run_in_thread replaces worker_thread
\* and clears stop_event; _scan_network starts from fresh locals.  The
\* _ping_host threads of the first run that are still alive (it ended
\* through its except clause) run on, with the list of the first run.
NdRunAgain ==
    /\ tool = "NetworkDiscoveryTool"
    /\ worker = "dead"
    /\ run = 1
    /\ num_hosts >= 1
    /\ prev' = [complete |-> "complete" \in events, found |-> hosts_found]
    /\ orphans' = [h \in Hosts |-> IF IsAlive(h) THEN task[h] ELSE NoTask]
    /\ task' = [h \in Hosts |-> NoTask]
    /\ run' = 2
    /\ events' = {}
    /\ shown' = {}
    /\ scan_btn' = "disabled"
    /\ stop_event' = ClearEvent
    /\ worker' = "nd_for"
    /\ ip' = 1
    /\ threads' = <<>>
    /\ hosts_found' = FreshList
    /\ attempts' = NoAttempts
    /\ stop_inflight' = {}
    /\ done_at_error' = {}
    /\ ret_log' = Append(ret_log, TRUE)
    /\ UNCHANGED <<toolVars, scanned, strays, tool, psVars, sockets, unref, num_hosts, status, timeout_var, timeout,
                   transport>>

\* run_tool with an empty range that auto-detection does not fill (lines
\* 87-93): the error line, return.
NdRunToolEmpty ==
    /\ tool = "NetworkDiscoveryTool"
    /\ scan_btn = "normal"
    /\ events' = events \cup {"invalid"}
    /\ UNCHANGED <<extVars, runVars, auxVars, tool, stop_event, worker, psVars, ndVars, sockets, unref,
                   shown, stop_inflight>>

\* run_tool with a range that is not empty and not an IPv4 network: run_tool
\* does not look at it and goes the same way as for a well-formed one; the
\* worker meets the ValueError of ipaddress.IPv4Network (lines 118-123).
NdRunToolMalformed ==
    /\ tool = "NetworkDiscoveryTool"
    /\ ~WorkerAlive
    /\ worker = "none"
    /\ events' = {}
    /\ shown' = {}
    /\ scan_btn' = "disabled"
    /\ stop_event' = ClearEvent
    /\ worker' = "nd_invalid"
    /\ run' = 1
    /\ ret_log' = Append(ret_log, TRUE)
    /\ UNCHANGED <<toolVars, scanned, strays, prev, orphans, transport, tool, psVars, ndVars, sockets, unref, stop_inflight, done_at_error,
                   status, timeout_var, timeout, attempts>>

\* stop_scan of either tool (the Stop button is enabled while Scan is
\* disabled).  A second click on a set event changes nothing and is left out.
StopScan ==
    /\ WorkerAlive
    /\ scan_btn = "disabled"
    /\ ~stop_event
    /\ stop_event' = TRUE
    /\ stop_inflight' =
         IF tool = "NetworkDiscoveryTool" THEN InFlight
         ELSE IF worker \in {"ps_scan", "ps_banner"} THEN {ports[port_i]} ELSE {}
    /\ status' = "Stopping"
    /\ UNCHANGED <<extVars, runVars, tool, worker, psVars, ndVars, sockets, unref, events, shown,
                   done_at_error, scan_btn, timeout_var, timeout, attempts>>

\* ------------------------------------------------ _scan_network (worker)

\* Variant of ThrottleFull: the comparison off by one.
ThrottleFull_OffByOne == Len(threads) > max_threads

\* while len(threads) >= max_threads
ThrottleFull == Len(threads) >= max_threads

\* Variant of ThreadsJoined: the join loop left out.
ThreadsJoined_Skipped == TRUE

\* for thread in threads: thread.join() has returned for every thread
ThreadsJoined == \A i \in 1..Len(threads) : ~IsAlive(threads[i])

\* Lines 124-125 of the worker: the range did not parse; 'Invalid network
\* range' is appended and the function returns through its finally clause.
NdInvalidRange ==
    /\ worker = "nd_invalid"
    /\ events' = events \cup {"invalid"}
    /\ worker' = "nd_finally"
    /\ UNCHANGED <<extVars, runVars, auxVars, tool, stop_event, psVars, ndVars, sockets, unref, shown,
                   stop_inflight>>

\* Top of the for loop: the next host, or the end of network.hosts(); the
\* stop check of line 139.
NdFor ==
    /\ worker = "nd_for"
    /\ IF ip > num_hosts
         THEN worker' = "nd_join" /\ UNCHANGED events
         ELSE IF stop_event
           THEN worker' = "nd_join" /\ events' = events \cup {"cancelled"}
           ELSE worker' = "nd_throttle" /\ UNCHANGED events
    /\ UNCHANGED <<extVars, runVars, auxVars, tool, stop_event, psVars, ndVars, sockets, unref, shown, stop_inflight>>

\* Variant of AliveOnly: the list is rebuilt with every thread kept.
AliveOnly_KeepAll(ts) == ts

\* [t for t in threads if t.is_alive()]
AliveOnly(ts) == SelectSeq(ts, IsAlive)

\* One pass of the throttle loop: the list is full, drop the dead threads.
NdThrottle ==
    /\ worker = "nd_throttle"
    /\ ThrottleFull
    /\ threads' = AliveOnly(threads)
    /\ UNCHANGED <<extVars, runVars, auxVars, tool, stop_event, worker, psVars, num_hosts, ip, task, hosts_found,
                   sockets, unref, events, shown, stop_inflight>>

\* The list has room: Thread(target=_ping_host).start() succeeds.
NdStartThread ==
    /\ worker = "nd_throttle"
    /\ ~ThrottleFull
    /\ task' = [task EXCEPT ![ip] = [pc |-> "port", port |-> 1, sawStop |-> FALSE,
                                     starts |-> @.starts + 1, up |-> "none",
                                     answered |-> FALSE, hostname |-> "unset"]]
    /\ threads' = Append(threads, ip)
    /\ ip' = ip + 1
    /\ worker' = "nd_for"
    /\ UNCHANGED <<extVars, runVars, auxVars, tool, stop_event, psVars, num_hosts, hosts_found, sockets, unref,
                   events, shown, stop_inflight>>

\* Thread.start() raises RuntimeError (no thread can be allocated): the
\* except clause of line 182 reports it and the join loop is skipped.
NdStartFails ==
    /\ worker = "nd_throttle"
    /\ ~ThrottleFull
    /\ events' = events \cup {"error"}
    /\ done_at_error' = BagToSet(hosts_found)
    /\ worker' = "nd_finally"
    /\ UNCHANGED <<extVars, runVars, tool, stop_event, psVars, ndVars, sockets, unref, shown, stop_inflight,
                   status, scan_btn, timeout_var, timeout, attempts>>

\* The join loop of lines 160-161 has run to its end.
NdJoin ==
    /\ worker = "nd_join"
    /\ ThreadsJoined
    /\ worker' = "nd_report"
    /\ UNCHANGED <<extVars, runVars, auxVars, tool, stop_event, psVars, ndVars, sockets, unref, events, shown,
                   stop_inflight>>

\* Lines 164-180: the results are displayed only if stop_event is not set.
NdReport ==
    /\ worker = "nd_report"
    /\ IF ~stop_event
         THEN /\ events' = events \cup {"complete"}
              /\ shown' = BagToSet(hosts_found)
         ELSE UNCHANGED <<events, shown>>
    /\ worker' = "nd_finally"
    /\ UNCHANGED <<extVars, runVars, auxVars, tool, stop_event, psVars, ndVars, sockets, unref, stop_inflight>>

\* The finally clause (lines 184-188): Scan enabled, Stop disabled, status
\* "Ready"; the thread ends.
NdFinally ==
    /\ worker = "nd_finally"
    /\ scan_btn' = "normal"
    /\ status' = "Ready"
    /\ worker' = "dead"
    /\ UNCHANGED <<extVars, runVars, tool, stop_event, psVars, ndVars, sockets, unref, events, shown,
                   stop_inflight, done_at_error, timeout_var, timeout, attempts>>

\* ------------------------------------------------- _ping_host (per host)

\* Lines 195-196: stop_event is set, break.  The break leaves the for loop
\* only: control reaches the statement after it, the ICMP fallback, and
\* subprocess.run starts the ping (lines 216-218).
StopObserved(t) == [t EXCEPT !.pc = "icmp", !.sawStop = TRUE]

\* socket.settimeout raises ValueError for a negative value.
SetTimeoutRaises == timeout < 0

\* connect_ex on a socket with timeout 0 (non-blocking) does not wait: it
\* returns the would-block code at once, which is not 0.
ConnectCanSucceed == timeout > 0

\* Whether connect_ex can return 0, on the network the probes meet.
ConnectResults ==
    IF transport = "always_up" THEN {TRUE} ELSE {ConnectCanSucceed, FALSE}

\* Whether the ping can show 'Reply from'.
PingReplies == IF transport = "always_up" THEN {TRUE} ELSE BOOLEAN

\* settimeout raised inside the try of lines 198-214: `except: pass`, and
\* the for loop is at its next port, or past its last one (ICMP fallback).
SkipPort(t) ==
    IF t.port < Len(ProbePorts)
      THEN [t EXCEPT !.port = t.port + 1]
      ELSE [t EXCEPT !.pc = "icmp"]

\* Top of one iteration of the for loop over the ports (lines 195-201): the
\* stop check; if clear, a socket is created, and unless settimeout raises
\* connect_ex begins.
EnterPort(t) ==
    IF stop_event THEN StopObserved(t)
    ELSE IF SetTimeoutRaises THEN SkipPort(t)
    ELSE [t EXCEPT !.pc = "conn"]

\* Sockets an iteration creates and abandons unclosed: the one whose
\* settimeout raised.
Abandons == IF ~stop_event /\ SetTimeoutRaises THEN 1 ELSE 0

\* The for loop over [80, 443, 22, 445] moves to its next port, or ends after
\* the last one: control reaches the ICMP fallback and subprocess.run starts
\* the ping (lines 216-218).
PortLoopNext(t) ==
    IF t.port < Len(ProbePorts)
      THEN EnterPort([t EXCEPT !.port = t.port + 1])
      ELSE [t EXCEPT !.pc = "icmp"]

\* Variant of ConnectSucceeded: the return of line 212 left out, so the loop
\* goes on to its next port after recording the host.
ConnectSucceeded_NoReturn(t) == [PortLoopNext(t) EXCEPT !.up = "up"]

\* Lines 204-212: connect_ex returned 0; the host is recorded, return.
ConnectSucceeded(t) == [t EXCEPT !.pc = "done", !.up = "up"]

\* Variant of ListAppend: the thread appends to a copy of the list.
ListAppend_ToCopy(found, h) == found

\* results.append((ip, hostname)), lines 211 and 231: one call on the list
\* object all threads share, atomic under the interpreter's lock.
ListAppend(found, h) == found (+) SetToBag({h})

\* What socket.gethostbyaddr(ip) does (lines 207, 227): return a name, raise
\* herror (no PTR record), or raise a timeout.
LookupOutcomes ==
    IF transport = "rdns_any" THEN {"name", "herror", "timeout"} ELSE {"name"}

\* Variant of LookupCaught: `except socket.herror:` in place of `except:`.
LookupCaught_HerrorOnly(answer) == answer = "herror"

\* The bare `except:` of lines 208 and 228 catches whatever the lookup raises.
LookupCaught(answer) == TRUE

\* The lookup raises past its own except clause, to the one around it (line
\* 213, line 233).
LookupEscapes(answer) == answer # "name" /\ ~LookupCaught(answer)

\* hostname = socket.gethostbyaddr(ip)[0], or None from the except clause;
\* the entry appended is (ip, hostname).
Named(t, answer) ==
    [t EXCEPT !.hostname = IF answer = "name" THEN "name" ELSE "None"]

\* connect_ex returned 0, or the ping showed 'Reply from'.
Answered(t) == [t EXCEPT !.answered = TRUE]

\* Sockets held by the _ping_host thread in state t.
Holds(t) == IF t.pc = "conn" THEN 1 ELSE 0

\* The connections begun, after the thread of host h has come to state t: in
\* "conn" it has just called connect_ex on its current port.
AfterEnter(a, h, t) ==
    IF t.pc = "conn" THEN Connected(a, <<h, ProbePorts[t.port]>>) ELSE a

\* The thread is at the top of an iteration of the for loop: its first one,
\* or the one after an iteration whose settimeout raised.
PingCheck(h) ==
    /\ task[h].pc = "port"
    /\ task' = [task EXCEPT ![h] = EnterPort(@)]
    /\ sockets' = sockets + Holds(task'[h]) + Abandons
    /\ unref' = unref + Abandons
    /\ attempts' = AfterEnter(attempts, h, task'[h])
    /\ UNCHANGED <<extVars, runVars, tool, stop_event, worker, psVars, num_hosts, ip, threads,
                   hosts_found, events, shown, stop_inflight, done_at_error, status,
                   scan_btn, timeout_var, timeout>>

\* Lines 201-214: connect_ex returns, sock.close(); on 0 the reverse lookup,
\* results.append((ip, hostname)) and return; otherwise the next iteration
\* of the loop, up to its connect_ex, or the ICMP fallback.  An exception
\* that left the lookup would be swallowed by line 213 and the loop go on.
PingConnect(h) ==
    /\ task[h].pc = "conn"
    /\ \E ok \in ConnectResults : \E answer \in LookupOutcomes :
         IF ok /\ ~LookupEscapes(answer)
           THEN /\ task' = [task EXCEPT ![h] = Named(Answered(ConnectSucceeded(@)), answer)]
                /\ hosts_found' = ListAppend(hosts_found, h)
           ELSE /\ task' = [task EXCEPT ![h] =
                               IF ok THEN Answered(PortLoopNext(@)) ELSE PortLoopNext(@)]
                /\ UNCHANGED hosts_found
    /\ sockets' = sockets - 1 + Holds(task'[h])
    /\ attempts' = AfterEnter(attempts, h, task'[h])
    /\ UNCHANGED <<extVars, runVars, tool, stop_event, worker, psVars, num_hosts, ip, threads,
                   unref, events, shown, stop_inflight, done_at_error, status,
                   scan_btn, timeout_var, timeout>>

\* Lines 225-234: the ping has ended; 'Reply from' in its output records the
\* host after the reverse lookup, anything else (no reply, TimeoutExpired,
\* OSError) records nothing.  An exception that left the lookup would be
\* swallowed by line 233.
PingIcmpDone(h) ==
    /\ task[h].pc = "icmp"
    /\ \E reply \in PingReplies : \E answer \in LookupOutcomes :
         IF reply /\ ~LookupEscapes(answer)
           THEN /\ task' = [task EXCEPT ![h] =
                               Named(Answered([@ EXCEPT !.pc = "done", !.up = "up"]), answer)]
                /\ hosts_found' = ListAppend(hosts_found, h)
           ELSE /\ task' = [task EXCEPT ![h] =
                               IF reply THEN Answered([@ EXCEPT !.pc = "done", !.up = "down"])
                               ELSE [@ EXCEPT !.pc = "done", !.up = "down"]]
                /\ UNCHANGED hosts_found
    /\ UNCHANGED <<extVars, runVars, auxVars, tool, stop_event, worker, psVars, num_hosts, ip, threads,
                   sockets, unref, events, shown, stop_inflight>>

\* The three steps of _ping_host again, for a thread left over from the run
\* before: it reads the same stop_event, opens and closes sockets, and
\* appends to the list of its own run, which nothing reads any more.
OrphanCheck(h) ==
    /\ orphans[h].pc = "port"
    /\ orphans' = [orphans EXCEPT ![h] = EnterPort(@)]
    /\ sockets' = sockets + Holds(orphans'[h]) + Abandons
    /\ unref' = unref + Abandons
    /\ UNCHANGED <<extVars, auxVars, tool, stop_event, worker, psVars, ndVars, events, shown,
                   stop_inflight, run, prev, transport>>

OrphanConnect(h) ==
    /\ orphans[h].pc = "conn"
    /\ \E ok \in ConnectResults :
         orphans' = [orphans EXCEPT ![h] =
                        IF ok THEN ConnectSucceeded(@) ELSE PortLoopNext(@)]
    /\ sockets' = sockets - 1 + Holds(orphans'[h])
    /\ UNCHANGED <<extVars, auxVars, tool, stop_event, worker, psVars, ndVars, unref, events,
                   shown, stop_inflight, run, prev, transport>>

OrphanIcmpDone(h) ==
    /\ orphans[h].pc = "icmp"
    /\ \E reply \in PingReplies :
         orphans' = [orphans EXCEPT ![h].pc = "done",
                                    ![h].up = IF reply THEN "up" ELSE "down"]
    /\ UNCHANGED <<extVars, auxVars, tool, stop_event, worker, psVars, ndVars, sockets, unref,
                   events, shown, stop_inflight, run, prev, transport>>

\* ------------------------------------------------ PortScannerTool (worker)

\* PortScannerTool.run_tool with a host, scan type "range" and a valid range
\* of fewer than ten ports: the output is cleared, Scan is disabled and Stop
\* enabled, and the run_in_thread call it ends with: refuse while a worker is
\* alive, clear stop_event, start _scan_thread.
PsRun(texts) ==
    /\ tool = "PortScannerTool"
    /\ ~WorkerAlive
    /\ worker = "none"
    /\ \E text \in texts :
         /\ timeout_var' = text
         /\ timeout' = ParseTimeout(text)
    /\ \E port_from \in PortRange : \E port_to \in PortRange :
         /\ port_from <= port_to
         /\ ports' = [i \in 1..(port_to - port_from + 1) |-> port_from + i - 1]
    /\ events' = {}
    /\ shown' = {}
    /\ scan_btn' = "disabled"
    /\ stop_event' = ClearEvent
    /\ worker' = "ps_for"
    /\ port_i' = 1
    /\ open_ports' = <<>>
    /\ attempts' = NoAttempts
    /\ run' = 1
    /\ scanned' = 0
    /\ ret_log' = Append(ret_log, TRUE)
    /\ UNCHANGED <<toolVars, strays, prev, orphans, transport, tool, scan_log, ndVars, sockets, unref, stop_inflight, done_at_error,
                   status>>

\* run_tool with a positive number in the Timeout field.
PsRunTool == PsRun(PositiveTimeouts)

\* run_tool with any text in the Timeout field.
PsRunToolAnyTimeout == PsRun(TimeoutTexts)

\* run_tool called right after stop(): the event is set as the run starts.
PsRunToolAfterStop == stop_event /\ PsRunTool

\* run_tool called a second time, with the fields as they were, after the
\* worker of the first run has ended.
PsRunAgain ==
    /\ tool = "PortScannerTool"
    /\ worker = "dead"
    /\ run = 1
    /\ prev' = [complete |-> "complete" \in events, found |-> open_ports]
    /\ run' = 2
    /\ events' = {}
    /\ shown' = {}
    /\ scan_btn' = "disabled"
    /\ stop_event' = ClearEvent
    /\ worker' = "ps_for"
    /\ port_i' = 1
    /\ open_ports' = <<>>
    /\ scan_log' = <<>>
    /\ attempts' = NoAttempts
    /\ stop_inflight' = {}
    /\ done_at_error' = {}
    /\ scanned' = 0
    /\ ret_log' = Append(ret_log, TRUE)
    /\ UNCHANGED <<toolVars, strays, tool, ports, ndVars, sockets, unref, status, timeout_var, timeout,
                   orphans, transport>>

\* run_tool with an empty host, a port outside 1..65535, a port that is not
\* a number, or from > to (lines 84-111): the error line, return.
PsRunToolInvalid ==
    /\ tool = "PortScannerTool"
    /\ scan_btn = "normal"
    /\ events' = events \cup {"invalid"}
    /\ UNCHANGED <<extVars, runVars, auxVars, tool, stop_event, worker, psVars, ndVars, sockets, unref,
                   shown, stop_inflight>>

\* Variant of RunInThreadRefuses: the guard left out.
RunInThreadRefuses_Never == FALSE

\* if self.worker_thread and self.worker_thread.is_alive(): return False
\* (base_tool.py:104-105)
RunInThreadRefuses == WorkerAlive

\* Worker threads alive and no longer referred to, after run_in_thread has
\* put a new thread into worker_thread (base_tool.py:110-116).
AfterReplace(n) == IF WorkerAlive THEN n + 1 ELSE n

\* A click on Scan at any moment at which the button is enabled, with valid
\* fields: the whole of run_tool, lines 82-128.  The output is cleared and
\* the header printed, Scan is disabled and Stop enabled, then run_in_thread
\* is called and its return value dropped: it either refuses, or clears
\* stop_event and starts _scan_thread.
PsClickScan ==
    /\ tool = "PortScannerTool"
    /\ scan_btn = "normal"
    /\ Len(ret_log) < MaxCalls
    /\ events' = {}
    /\ shown' = {}
    /\ scan_btn' = "disabled"
    /\ IF RunInThreadRefuses
         THEN /\ ret_log' = Append(ret_log, FALSE)
              /\ UNCHANGED <<stop_event, worker, psVars, scanned, strays, attempts, run,
                             stop_inflight, done_at_error>>
         ELSE /\ ret_log' = Append(ret_log, TRUE)
              /\ \E port_from \in PortRange : \E port_to \in PortRange :
                    /\ port_from <= port_to
                    /\ ports' = [i \in 1..(port_to - port_from + 1) |-> port_from + i - 1]
              /\ stop_event' = ClearEvent
              /\ strays' = AfterReplace(strays)
              /\ worker' = "ps_for"
              /\ port_i' = 1
              /\ open_ports' = <<>>
              /\ scan_log' = <<>>
              /\ scanned' = 0
              /\ attempts' = NoAttempts
              /\ run' = run + 1
              /\ stop_inflight' = {}
              /\ done_at_error' = {}
    /\ UNCHANGED <<toolVars, tool, ndVars, sockets, unref, status, timeout_var, timeout,
                   prev, orphans, transport>>

\* sock.close() in the finally clause of _scan_port, line 191.
ScanPortClose(n) == n - 1

\* Variant of Increment: the counter is left as it is.
Increment_Skipped(n) == n

\* scanned += 1 (line 144)
Increment(n) == n + 1

\* total = ports.stop - ports.start, for the range(port_from, port_to + 1)
\* of run_tool (line 136).
total == Len(ports)

\* Top of the for loop (lines 139-146), then the entry of _scan_port
\* (lines 178-184): a socket is created and connect_ex begins.  If
\* settimeout raises (line 179, outside the try), the socket is abandoned
\* unclosed and the exception reaches the except clause of line 168.
PsFor ==
    /\ worker = "ps_for"
    /\ IF port_i > Len(ports)
         THEN /\ worker' = "ps_summary"
              /\ UNCHANGED <<events, sockets, unref, done_at_error, attempts, scanned>>
         ELSE IF stop_event
           THEN /\ worker' = "ps_summary"
                /\ events' = events \cup {"cancelled"}
                /\ UNCHANGED <<sockets, unref, done_at_error, attempts, scanned>>
           ELSE IF SetTimeoutRaises
             THEN /\ worker' = "ps_finally"
                  /\ events' = events \cup {"error"}
                  /\ done_at_error' = Range(open_ports)
                  /\ sockets' = sockets + 1
                  /\ unref' = unref + 1
                  /\ scanned' = Increment(scanned)
                  /\ UNCHANGED attempts
             ELSE /\ worker' = "ps_scan"
                  /\ sockets' = sockets + 1
                  /\ attempts' = Connected(attempts, <<0, ports[port_i]>>)
                  /\ scanned' = Increment(scanned)
                  /\ UNCHANGED <<events, unref, done_at_error>>
    /\ UNCHANGED <<toolVars, threadVars, runVars, tool, stop_event, psVars, ndVars, shown,
                   stop_inflight, status,
                   scan_btn, timeout_var, timeout>>

\* What one connect_ex call of _scan_port can do: return 0, return an error
\* code (refused, timed out; would block, with timeout 0), or raise gaierror
\* (the name does not resolve).
ScanOutcomes ==
    IF transport = "always_up" THEN {"open"}
    ELSE IF ConnectCanSucceed
      THEN {"open", "refused", "timeout", "gaierror"}
      ELSE {"wouldblock", "gaierror"}

\* What _grab_banner can meet: a first line received, nothing received, or
\* connect / send raising.
BannerOutcomes ==
    IF transport = "always_up" THEN {"banner", "nobanner"}
    ELSE {"banner", "nobanner", "raise"}

\* Variant of WantsBanner: the banner grab tried whatever _scan_port found.
WantsBanner_AnyResult(port, open) == port \in BannerPorts

\* Line 157: the banner grab is tried for an open port of this list.
WantsBanner(port, open) == open /\ port \in BannerPorts

\* Variant of ScanPortCatches: the except clauses left out.
ScanPortCatches_None(outcome) == FALSE

\* The except clauses of lines 186-189 (socket.gaierror, socket.error).
ScanPortCatches(outcome) == outcome \in {"gaierror", "error"}

\* The outcome leaves _scan_port as an exception.
ScanPortRaises(outcome) == outcome = "gaierror" /\ ~ScanPortCatches(outcome)

\* _scan_port returns (the finally clause closes the socket), then lines
\* 151-158: an open port is appended and printed, and for a banner port
\* _grab_banner creates its own socket and connects.  An exception that
\* leaves _scan_port would reach the except clause of line 168.
PsScanPort ==
    /\ worker = "ps_scan"
    /\ \E outcome \in ScanOutcomes :
         LET port == ports[port_i]
             open == outcome = "open"
         IN  IF ScanPortRaises(outcome)
               THEN /\ events' = events \cup {"error"}
                    /\ done_at_error' = Range(open_ports)
                    /\ worker' = "ps_finally"
                    /\ sockets' = ScanPortClose(sockets)
                    /\ UNCHANGED <<scan_log, open_ports, shown, port_i, attempts>>
               ELSE /\ scan_log' = Append(scan_log, <<port, open>>)
                    /\ open_ports' = IF open THEN Append(open_ports, port) ELSE open_ports
                    /\ shown' = IF open THEN shown \cup {port} ELSE shown
                    /\ IF WantsBanner(port, open)
                         THEN /\ worker' = "ps_banner"
                              /\ sockets' = ScanPortClose(sockets) + 1
                              /\ attempts' = Connected(attempts, <<0, port>>)
                              /\ UNCHANGED port_i
                         ELSE /\ worker' = "ps_for"
                              /\ sockets' = ScanPortClose(sockets)
                              /\ port_i' = port_i + 1
                              /\ UNCHANGED attempts
                    /\ UNCHANGED <<events, done_at_error>>
    /\ UNCHANGED <<extVars, runVars, tool, stop_event, ports, ndVars, unref, stop_inflight, status,
                   scan_btn, timeout_var, timeout>>

\* What _grab_banner leaves of its socket.  A first line was received: line
\* 216 returns and line 220 is never reached.  connect / send raised: the
\* except clause of line 221 swallows it, again past line 220.  Only an
\* empty or failed recv goes through sock.close().  A socket that was not
\* closed stays open until the runtime finalises the unreferenced object.
BannerClosesSocket(outcome) == outcome = "nobanner"

\* _grab_banner returns; the for loop moves on.
PsGrabBanner ==
    /\ worker = "ps_banner"
    /\ \E outcome \in BannerOutcomes :
         IF BannerClosesSocket(outcome)
           THEN sockets' = sockets - 1 /\ UNCHANGED unref
           ELSE unref' = unref + 1 /\ UNCHANGED sockets
    /\ worker' = "ps_for"
    /\ port_i' = port_i + 1
    /\ UNCHANGED <<extVars, runVars, auxVars, tool, stop_event, ports, open_ports, scan_log, ndVars, events,
                   shown, stop_inflight>>

\* Lines 163-166: the summary is printed only if stop_event is not set.
PsSummary ==
    /\ worker = "ps_summary"
    /\ events' = IF ~stop_event THEN events \cup {"complete"} ELSE events
    /\ worker' = "ps_finally"
    /\ UNCHANGED <<extVars, runVars, auxVars, tool, stop_event, psVars, ndVars, sockets, unref, shown, stop_inflight>>

\* The finally clause (lines 170-174) as one step, for the specifications
\* in which no click comes while it runs: Scan enabled, Stop disabled,
\* status "Ready"; the thread ends.
PsFinally ==
    /\ worker = "ps_finally"
    /\ scan_btn' = "normal"
    /\ status' = "Ready"
    /\ worker' = "dead"
    /\ UNCHANGED <<extVars, runVars, tool, stop_event, psVars, ndVars, sockets, unref, events, shown,
                   stop_inflight, done_at_error, timeout_var, timeout, attempts>>

\* The finally clause, statement by statement: between two widget calls of
\* the worker the Tk main loop can run a callback.  First the two button
\* calls (lines 171-172): Scan enabled, Stop disabled.
PsFinallyButtons ==
    /\ worker = "ps_finally"
    /\ scan_btn' = "normal"
    /\ worker' = "ps_exit"
    /\ UNCHANGED <<extVars, runVars, tool, stop_event, psVars, ndVars, sockets, unref, events,
                   shown, stop_inflight, done_at_error, status, timeout_var, timeout,
                   attempts>>

\* Then stop_progress and set_status("Ready") (lines 173-174); the thread
\* ends.
PsFinallyStatus ==
    /\ worker = "ps_exit"
    /\ status' = "Ready"
    /\ worker' = "dead"
    /\ UNCHANGED <<extVars, runVars, tool, stop_event, psVars, ndVars, sockets, unref, events,
                   shown, stop_inflight, done_at_error, scan_btn, timeout_var, timeout,
                   attempts>>

\* ---------------------------------------------------------- DNSLookupTool

\* lookup_all: record_types (dns_lookup.py:110)
record_types == <<"A", "AAAA", "MX", "NS", "TXT", "SOA">>

\* BaseTool.stop() at any moment.
StopCall ==
    /\ tool = "DNSLookupTool"
    /\ ~stop_event
    /\ stop_event' = TRUE
    /\ UNCHANGED <<scanVars, threadVars, toolVars, tool, worker>>

\* run_tool and query_all_records with a domain typed (lines 51-61 and 96,
\* 98-107 and 131); neither is behind a button that is ever disabled.  The
\* output is cleared and the header printed, then run_in_thread is called
\* and its return value dropped: it either refuses, or clears stop_event and
\* starts the closure.
DnsStart(title, closure) ==
    /\ tool = "DNSLookupTool"
    /\ Len(ret_log) < MaxCalls
    /\ output' = <<title>>
    /\ IF RunInThreadRefuses
         THEN /\ ret_log' = Append(ret_log, FALSE)
              /\ UNCHANGED <<stop_event, worker, strays, record_i>>
         ELSE /\ ret_log' = Append(ret_log, TRUE)
              /\ stop_event' = ClearEvent
              /\ strays' = AfterReplace(strays)
              /\ worker' = closure
              /\ record_i' = 1
    /\ UNCHANGED <<scanVars, cfgVars, wolVars, bwVars, tool>>

\* A click on Lookup, record type A.
DnsRunTool == DnsStart(<<"header", "A">>, "dns_lookup")

\* A click on Query All Records.
DnsQueryAllRecords == DnsStart(<<"header", "all">>, "dns_all")

\* run_tool and query_all_records with the Domain field empty (lines 56-58,
\* 102-104): the error line, return.
DnsNoDomain ==
    /\ tool = "DNSLookupTool"
    /\ Len(output) <= 1
    /\ output' = Append(output, <<"error", "domain">>)
    /\ UNCHANGED <<scanVars, cfgVars, wolVars, threadVars, bwVars, tool, stop_event, worker,
                   record_i>>

\* lookup (lines 64-89): the nslookup result or the 'No records' line, then
\* the socket resolution section with its addresses or its error line.
DnsLookup ==
    /\ worker = "dns_lookup"
    /\ \E found \in BOOLEAN : \E resolved \in BOOLEAN :
         output' = output \o <<<<IF found THEN "records" ELSE "none", "A">>,
                               <<"section", "socket">>,
                               <<IF resolved THEN "address" ELSE "error", "socket">>>>
    /\ worker' = "dns_finally"
    /\ UNCHANGED <<scanVars, cfgVars, wolVars, threadVars, bwVars, tool, stop_event, record_i>>

\* lookup_all, one iteration of its for loop (lines 115-123): the section
\* line, then the nslookup result or the 'No records found' line; or the
\* end of the loop.
DnsLookupAll ==
    /\ worker = "dns_all"
    /\ IF record_i <= Len(record_types)
         THEN /\ \E found \in BOOLEAN :
                    output' = output \o <<<<"section", record_types[record_i]>>,
                                          <<IF found THEN "records" ELSE "none",
                                            record_types[record_i]>>>>
              /\ record_i' = record_i + 1
              /\ UNCHANGED worker
         ELSE /\ worker' = "dns_finally"
              /\ UNCHANGED <<output, record_i>>
    /\ UNCHANGED <<scanVars, cfgVars, wolVars, threadVars, bwVars, tool, stop_event>>

\* The finally clause of either closure (lines 92-94, 127-129): status
\* "Ready"; the thread ends.
DnsFinally ==
    /\ worker = "dns_finally"
    /\ status' = "Ready"
    /\ worker' = "dead"
    /\ UNCHANGED <<scanOnly, cfgVars, wolVars, threadVars, dnsVars, bwVars, tool, stop_event>>

\* --------------------------------------------------- BandwidthMonitorTool

\* The check of start_monitor (lines 89-95): float() raises, or
\* interval < 0.5 or interval > 60.
IntervalRejected(x) == x.raises \/ FloatLess(x, 5) \/ FloatGreater(x, 600)

\* toggle_monitor, a click on the Start/Stop button with some text in the
\* Interval field.  While the worker is alive, stop_monitor: the event is
\* set, the button reads "Start Monitor".  Otherwise start_monitor: the
\* output is cleared and the header printed; a rejected interval gives the
\* error line and nothing else; an accepted one sets the button to "Stop
\* Monitor" and calls run_in_thread.
BwToggleMonitor ==
    /\ tool = "BandwidthMonitorTool"
    /\ IF WorkerAlive
         THEN /\ stop_event' = TRUE
              /\ monitor_btn' = "Start Monitor"
              /\ status' = "Stopping"
              /\ UNCHANGED <<threadVars, output, worker, interval_var, interval, iteration,
                             samples, observed>>
         ELSE /\ Len(ret_log) < MaxCalls
              /\ \E text \in IntervalTexts :
                    /\ interval_var' = text
                    /\ IF IntervalRejected(ParseFloat(text))
                         THEN /\ output' = <<<<"header", 0>>, <<"error", 0>>>>
                              /\ UNCHANGED <<threadVars, stop_event, worker, monitor_btn,
                                             interval, iteration, samples, observed>>
                         ELSE /\ output' = <<<<"header", 0>>>>
                              /\ monitor_btn' = "Stop Monitor"
                              /\ ret_log' = Append(ret_log, RunInThreadRefuses = FALSE)
                              /\ stop_event' = ClearEvent
                              /\ strays' = AfterReplace(strays)
                              /\ worker' = "bw_init"
                              /\ interval' = ParseFloat(text)
                              /\ iteration' = 0
                              /\ samples' = 0
                              /\ observed' = FALSE
              /\ UNCHANGED status
    /\ UNCHANGED <<scanOnly, cfgVars, wolVars, record_i, tool>>

\* _monitor_bandwidth up to its loop (lines 109-121): the first statistics
\* sample.
BwBegin ==
    /\ worker = "bw_init"
    /\ samples' = samples + 1
    /\ worker' = "bw_while"
    /\ UNCHANGED <<scanVars, cfgVars, wolVars, threadVars, dnsVars, tool, stop_event, monitor_btn,
                   interval_var, interval, iteration, observed>>

\* The test of the while loop (line 123); if it passes, iteration += 1 and
\* time.sleep(interval) begins.
BwWhile ==
    /\ worker = "bw_while"
    /\ IF stop_event
         THEN /\ observed' = TRUE
              /\ worker' = "bw_after"
              /\ UNCHANGED iteration
         ELSE /\ iteration < MaxUpdates
              /\ iteration' = iteration + 1
              /\ worker' = "bw_sleep"
              /\ UNCHANGED observed
    /\ UNCHANGED <<scanVars, cfgVars, wolVars, threadVars, dnsVars, tool, stop_event, monitor_btn,
                   interval_var, interval, samples>>

\* time.sleep(interval) is over (lines 127-161).  It raised ValueError at
\* once if the interval is not a number: the except clause prints the
\* error.  Otherwise the stop check of line 129, and if it is clear the
\* next sample and the update printed from it.
BwWake ==
    /\ worker = "bw_sleep"
    /\ IF interval.nan
         THEN /\ output' = Append(output, <<"error", 0>>)
              /\ worker' = "bw_finally"
              /\ UNCHANGED <<samples, observed>>
         ELSE IF stop_event
           THEN /\ observed' = TRUE
                /\ worker' = "bw_after"
                /\ UNCHANGED <<output, samples>>
           ELSE /\ samples' = samples + 1
                /\ output' = Append(output, <<"update", iteration>>)
                /\ worker' = "bw_while"
                /\ UNCHANGED observed
    /\ UNCHANGED <<scanVars, cfgVars, wolVars, threadVars, record_i, tool, stop_event, monitor_btn,
                   interval_var, interval, iteration>>

\* After the loop (lines 163-164): 'Monitoring stopped.'
BwAfter ==
    /\ worker = "bw_after"
    /\ output' = Append(output, <<"stopped", 0>>)
    /\ worker' = "bw_finally"
    /\ UNCHANGED <<scanVars, cfgVars, wolVars, threadVars, record_i, bwVars, tool, stop_event>>

\* The finally clause (lines 168-171): the button reads "Start Monitor",
\* status "Ready"; the thread ends.
BwFinally ==
    /\ worker = "bw_finally"
    /\ monitor_btn' = "Start Monitor"
    /\ status' = "Ready"
    /\ worker' = "dead"
    /\ UNCHANGED <<scanOnly, cfgVars, wolVars, threadVars, dnsVars, tool, stop_event, interval_var,
                   interval, iteration, samples, observed>>

\* ---------------------------------------------------------- WakeOnLanTool

notWolVars == <<scanVars, threadVars, bwVars, cfgVars, tool, stop_event>>

\* del s[index], index counted from 1.
RemoveAt(s, index) == [i \in 1..(Len(s) - 1) |-> IF i < index THEN s[i] ELSE s[i + 1]]

\* The position of the first entry of history with this MAC string, 0 if
\* there is none (the for loop of lines 158-162).
FirstWith(history, mac) ==
    IF \E i \in 1..Len(history) : history[i].mac = mac
      THEN CHOOSE i \in 1..Len(history) :
             /\ history[i].mac = mac
             /\ \A j \in 1..(i - 1) : history[j].mac # mac
      ELSE 0

\* run_tool (lines 66-88) with this text in the MAC Address field: an error
\* line for a text that is no MAC address; else the output is cleared, the
\* header printed and run_in_thread called, which refuses or starts
\* _send_wol_packet.
WolRunTool(mac) ==
    /\ tool = "WakeOnLanTool"
    /\ Len(ret_log) < MaxCalls
    /\ IF ~IsValidMac(mac)
         THEN /\ Len(output) <= 1
              /\ output' = Append(output, <<"error", "mac">>)
              /\ UNCHANGED <<threadVars, stop_event, worker, mac_address>>
         ELSE /\ output' = <<<<"header", "wol">>>>
              /\ IF RunInThreadRefuses
                   THEN /\ ret_log' = Append(ret_log, FALSE)
                        /\ UNCHANGED <<stop_event, worker, strays, mac_address>>
                   ELSE /\ ret_log' = Append(ret_log, TRUE)
                        /\ stop_event' = ClearEvent
                        /\ strays' = AfterReplace(strays)
                        /\ worker' = "wol_send"
                        /\ mac_address' = mac
    /\ UNCHANGED <<scanVars, bwVars, cfgVars, record_i, mac_history, history_listbox,
                   entry_i, tool>>

\* _send_wol_packet, lines 92-120: the MAC is cleaned, the packet built and
\* sent; sendto may raise, which the except clause reports.
WolSend ==
    /\ worker = "wol_send"
    /\ mac_address' = CleanMac(mac_address)
    /\ \E sent \in BOOLEAN :
         /\ output' = Append(output, <<IF sent THEN "sent" ELSE "error", "wol">>)
         /\ worker' = IF sent THEN "wol_check" ELSE "wol_finally"
    /\ UNCHANGED <<notWolVars, record_i, mac_history, history_listbox, entry_i>>

\* line 123: is the MAC among those of mac_history?
WolCheck ==
    /\ worker = "wol_check"
    /\ worker' = IF FirstWith(mac_history, mac_address) = 0 THEN "wol_append"
                 ELSE "wol_finally"
    /\ UNCHANGED <<notWolVars, dnsVars, wolVars>>

\* lines 124-125: name_var.get(), which the main loop answers between two
\* of its callbacks, then the entry is appended.
WolAppend ==
    /\ worker = "wol_append"
    /\ \E name \in NameTexts :
         mac_history' =
            Append(mac_history, [mac |-> mac_address, name |-> NameOr(name, mac_history)])
    /\ worker' = "wol_delete"
    /\ UNCHANGED <<notWolVars, dnsVars, history_listbox, mac_address, entry_i>>

\* line 126, _update_history_list in the worker: the listbox is emptied
\* (line 189) ...
WolDelete ==
    /\ worker = "wol_delete"
    /\ history_listbox' = <<>>
    /\ entry_i' = 1
    /\ worker' = "wol_insert"
    /\ UNCHANGED <<notWolVars, dnsVars, mac_history, mac_address>>

\* ... and one row is inserted per entry the for loop finds (lines 190-191);
\* the loop ends when its position is past the end of mac_history.
WolInsert ==
    /\ worker = "wol_insert"
    /\ IF entry_i <= Len(mac_history)
         THEN /\ history_listbox' = Append(history_listbox, mac_history[entry_i])
              /\ entry_i' = entry_i + 1
              /\ UNCHANGED worker
         ELSE /\ worker' = "wol_finally"
              /\ UNCHANGED <<history_listbox, entry_i>>
    /\ UNCHANGED <<notWolVars, dnsVars, mac_history, mac_address>>

\* finally (lines 130-132), and the thread ends.
WolFinally ==
    /\ worker = "wol_finally"
    /\ worker' = "dead"
    /\ UNCHANGED <<notWolVars, dnsVars, wolVars>>

\* save_mac (lines 145-166) with these texts in the MAC Address and Name
\* fields: the first entry with this MAC string gets the name, or an entry
\* is appended; the listbox is rebuilt.
save_mac(mac, name) ==
    /\ tool = "WakeOnLanTool"
    /\ IF ~IsValidMac(mac)
         THEN /\ Len(output) <= 1
              /\ output' = Append(output, <<"error", "mac">>)
              /\ UNCHANGED <<mac_history, history_listbox>>
         ELSE /\ mac_history' =
                    IF FirstWith(mac_history, mac) # 0
                      THEN [mac_history EXCEPT ![FirstWith(mac_history, mac)].name =
                                                   NameOr(name, mac_history)]
                      ELSE Append(mac_history,
                                  [mac |-> mac, name |-> NameOr(name, mac_history)])
              /\ history_listbox' = mac_history'
              /\ UNCHANGED output
    /\ UNCHANGED <<notWolVars, worker, record_i, mac_address, entry_i>>

\* remove_mac (lines 178-185) with the index-th row of the listbox selected.
remove_mac(index) ==
    /\ tool = "WakeOnLanTool"
    /\ index \in 1..Len(history_listbox)
    /\ IF index <= Len(mac_history)
         THEN /\ mac_history' = RemoveAt(mac_history, index)
              /\ history_listbox' = mac_history'
         ELSE UNCHANGED <<mac_history, history_listbox>>
    /\ UNCHANGED <<notWolVars, worker, dnsVars, mac_address, entry_i>>

\* ---------------------------------------------------------- ConfigManager

\* The variables of the tools.
notCfgVars ==
    <<scanVars, threadVars, dnsVars, bwVars, wolVars, tool, stop_event, worker>>

\* dict.copy() (line 44): a new dict with the same values, which here are
\* the section dicts themselves, not copies of them.
Copy(outer) == [s \in Sections |-> IF s \in DOMAIN outer THEN outer[s] ELSE NoSection]

\* dict.update(values): the keys of values replace or extend those of d.
Update(d, values) == [k \in Keys |-> IF values[k] # Nil THEN values[k] ELSE d[k]]

\* load (lines 48-62) on the i-th object whose self.config is cfg, with the
\* dict objects ds: the config after it, and the dict objects after it.  A
\* section self.config has is updated in place, another one is put in.
LoadConfig(i, cfg) ==
    [s \in Sections |->
        IF config_file.exists /\ s \in config_file.sections /\ cfg[s] = NoSection
          THEN i ELSE cfg[s]]
LoadDicts(i, cfg, ds) ==
    [d \in Owners \X Sections |->
        IF config_file.exists /\ d[2] \in config_file.sections
          THEN IF cfg[d[2]] = d[1] THEN Update(ds[d], config_file.data[d[2]])
               ELSE IF cfg[d[2]] = NoSection /\ d[1] = i THEN config_file.data[d[2]]
               ELSE ds[d]
          ELSE ds[d]]

\* ConfigManager() (lines 39-46): self.config = DEFAULT_CONFIG.copy(), then
\* load().
CmInit ==
    /\ tool = "ConfigManager"
    /\ made < MaxInstances
    /\ made' = made + 1
    /\ config' = [config EXCEPT ![made + 1] = LoadConfig(made + 1, Copy(DEFAULT_CONFIG))]
    /\ dicts' = LoadDicts(made + 1, Copy(DEFAULT_CONFIG), dicts)
    /\ UNCHANGED <<notCfgVars, DEFAULT_CONFIG, config_file>>

\* load() called again on an object.
CmLoad(i) ==
    /\ i <= made
    /\ config_file.exists
    /\ config' = [config EXCEPT ![i] = LoadConfig(i, @)]
    /\ dicts' = LoadDicts(i, config[i], dicts)
    /\ UNCHANGED <<notCfgVars, DEFAULT_CONFIG, made, config_file>>

\* save() (lines 64-70): json.dump(self.config).
CmSave(i) ==
    /\ i <= made
    /\ config_file' =
          [exists |-> TRUE,
           sections |-> {s \in Sections : config[i][s] # NoSection},
           data |-> [s \in Sections |->
                       IF config[i][s] # NoSection THEN dicts[<<config[i][s], s>>]
                       ELSE EmptyDict]]
    /\ UNCHANGED <<notCfgVars, DEFAULT_CONFIG, dicts, config, made>>

\* set(section, key, value) (lines 78-82): a section self.config lacks gets
\* a dict of its own; then the key is stored in the dict of the section.
CmSet(i, section, key, value) ==
    /\ i <= made
    /\ LET owner == IF config[i][section] = NoSection THEN i ELSE config[i][section]
       IN  /\ config' = [config EXCEPT ![i][section] = owner]
           /\ dicts' = [dicts EXCEPT ![<<owner, section>>] =
                            [(IF config[i][section] = NoSection THEN EmptyDict ELSE @)
                                EXCEPT ![key] = value]]
    /\ UNCHANGED <<notCfgVars, DEFAULT_CONFIG, made, config_file>>

\* get(section, key) (lines 72-76) on an object whose self.config is cfg,
\* with the dict objects ds; Nil is the default None.
Get(cfg, ds, section, key) ==
    IF cfg[section] # NoSection THEN ds[<<cfg[section], section>>][key] ELSE Nil

\* The runtime finalises an unreferenced socket object, which closes it.
\* When that happens is up to the interpreter's collector.
Finalize ==
    /\ unref > 0
    /\ unref' = unref - 1
    /\ sockets' = sockets - 1
    /\ UNCHANGED <<extVars, runVars, auxVars, tool, stop_event, worker, psVars, ndVars, events, shown, stop_inflight>>

\* --------------------------------------------------------------- claims

\* Ports whose _scan_port call has been entered.
PsDispatched ==
    {ports[i] : i \in {j \in 1..Len(ports) :
        j < port_i \/ (j = port_i /\ worker \in {"ps_scan", "ps_banner"})}}

\* Every target has been handed to a probe.
AllDispatched ==
    IF tool = "NetworkDiscoveryTool"
      THEN worker # "none" /\ \A h \in 1..num_hosts : task[h].starts >= 1
      ELSE worker # "none" /\ PsDispatched = Range(ports)

\* Every target was probed exactly once and that probe has produced its
\* outcome: one _scan_port return value per port, in order; one finished
\* _ping_host per host, recorded in hosts_found exactly when it found it up.
OneResultPerTarget ==
    IF tool = "NetworkDiscoveryTool"
      THEN \A h \in 1..num_hosts :
             /\ task[h].starts = 1
             /\ task[h].pc = "done"
             /\ task[h].up \in {"up", "down"}
             /\ CopiesIn(h, hosts_found) = IF task[h].up = "up" THEN 1 ELSE 0
      ELSE /\ Len(scan_log) = Len(ports)
           /\ \A i \in 1..Len(ports) : scan_log[i][1] = ports[i]
           /\ open_ports = SelectSeq(ports, LAMBDA p : <<p, TRUE>> \in Range(scan_log))

\* Probe attempts that hold a socket right now.
AttemptsInProgress ==
    Cardinality({h \in Hosts : task[h].pc = "conn"})
      + (IF worker \in {"ps_scan", "ps_banner"} THEN 1 ELSE 0)

\* C1: in network discovery, at no instant are more than max_threads
\* _ping_host tasks in flight (started and not finished).
C1_ConcurrencyCeiling == Cardinality(InFlight) <= max_threads

\* The ceiling is reached while a further host waits in the throttle loop.
C1_Witness ==
    /\ worker = "nd_throttle"
    /\ ip <= num_hosts
    /\ Cardinality(InFlight) = max_threads

\* C2: when the scan worker has reached its end, on every path, no
\* _ping_host thread it started is still alive.
C2_NoDanglingWorkers == worker = "dead" => InFlight = {}

\* C3 as stated: whenever stop was never requested, the finished run has
\* dispatched every target exactly once and has one result per target.
C3_CardinalityAsStated ==
    (worker = "dead" /\ ~stop_event) => OneResultPerTarget

\* C3, amended: whenever stop was never requested and the run did not end
\* through its except clause, the finished run has dispatched every target
\* exactly once and has one result per target.
C3_Cardinality ==
    (worker = "dead" /\ ~stop_event /\ "error" \notin events) => OneResultPerTarget

\* A discovery run over more hosts than threads ends uncancelled, with
\* hosts found and hosts not found.
C3_Witness ==
    /\ tool = "NetworkDiscoveryTool"
    /\ worker = "dead" /\ ~stop_event /\ "error" \notin events
    /\ num_hosts > max_threads
    /\ \E h \in 1..num_hosts : task[h].up = "up"
    /\ \E h \in 1..num_hosts : task[h].up = "down"

\* C4: in every state the result collection holds at most one entry per
\* target, and none for a target that was never dispatched.
C4_AtMostOneResult ==
    /\ \A h \in Hosts :
         /\ CopiesIn(h, hosts_found) <= 1
         /\ task[h].starts = 0 => CopiesIn(h, hosts_found) = 0
    /\ \A p \in PortRange :
         /\ Count(open_ports, p) <= 1
         /\ p \notin PsDispatched => Count(open_ports, p) = 0

\* A cancelled discovery run with a result and a host never dispatched.
C4_Witness ==
    /\ "cancelled" \in events
    /\ hosts_found # EmptyBag
    /\ \E h \in 1..num_hosts : task[h].starts = 0

\* C5: a result produced by a probe that was in flight when stop was
\* requested is delivered (shown) by the time the run has ended.
C5_InFlightResultsDelivered ==
    (worker = "dead" /\ "error" \notin events) =>
        \A t \in stop_inflight :
            t \in (BagToSet(hosts_found) \cup Range(open_ports)) => t \in shown

\* C6: a worker that has observed stop_event set starts no new connectivity
\* attempt: no TCP connect and no ping subprocess.
C6_NoAttemptAfterStopObserved ==
    [][ /\ \A h \in Hosts :
             task'[h].sawStop =>
                 ~(task'[h].pc \in {"conn", "icmp"} /\ task'[h].pc # task[h].pc)
        /\ (tool = "PortScannerTool" /\ "cancelled" \in events) =>
                 sockets' <= sockets ]_vars

\* C7: a probe task that found stop_event set appends nothing to the result
\* collection afterwards.
C7_DroppedOnObservedStop ==
    [][ \A h \in Hosts :
          task[h].sawStop => CopiesIn(h, hosts_found') = CopiesIn(h, hosts_found) ]_vars

\* C8: in the port scanner no two connections are open at the same instant.
C8_NoOpenOverlap == tool = "PortScannerTool" => sockets <= 1

\* C9: the open sockets are exactly those of the attempts in progress, so
\* none is open when no attempt is in progress.
C9_SocketClosedPerAttempt == sockets = AttemptsInProgress

\* C10: a run that has dispatched every target and whose probes have all
\* published ends Completed: it has reported completion.
C10_RunningToCompleted ==
    (worker = "dead" /\ AllDispatched /\ OneResultPerTarget) => "complete" \in events

\* C11: a run is reported as cancelled only once every probe task it had in
\* flight has finished: while the 'Scan cancelled' line is in the output, no
\* _ping_host task is in flight and no port probe is in progress.
C11_CancelledOnlyAfterDrain ==
    "cancelled" \in events =>
        /\ InFlight = {}
        /\ worker \notin {"ps_scan", "ps_banner"}

\* C12: a run that ended through its except clause has surfaced the error
\* and returns with it the results of the probes that had completed: every
\* host that was in hosts_found when the error was reported is shown.
C12_ResultsKeptOnExhaustion ==
    (worker = "dead" /\ "error" \in events) => done_at_error \subseteq shown

\* The dispatch loop of the worker has been left.
LoopExited ==
    worker \in {"nd_join", "nd_report", "nd_finally", "ps_summary", "ps_finally", "dead"}

\* C13: a failed probe is recorded as that target's negative outcome and the
\* run goes on.  The port scanner has one _scan_port value per finished port
\* and leaves its loop early only on a stop request; the discovery leaves its
\* loop early only on a stop request or a failed Thread.start; a host is
\* given up as down only after every probe port was tried or stop was seen.
C13_ProbeFailureNeverAborts ==
    /\ tool = "PortScannerTool" =>
         /\ (LoopExited /\ ~AllDispatched) => "cancelled" \in events
         /\ worker \in {"ps_for", "ps_summary", "ps_finally", "dead"} =>
                Len(scan_log) = port_i - 1
    /\ tool = "NetworkDiscoveryTool" =>
         /\ (LoopExited /\ ~AllDispatched) =>
                ("cancelled" \in events \/ "error" \in events)
         /\ \A h \in Hosts :
                task[h].up = "down" =>
                    (task[h].sawStop \/ task[h].port = Len(ProbePorts))

\* A port scan has completed although an earlier port of it failed, and a
\* discovery has completed although a host of it answered on no port.
C13_Witness ==
    /\ worker = "dead" /\ "complete" \in events
    /\ IF tool = "PortScannerTool"
         THEN \E i \in 1..Len(scan_log) : i < Len(scan_log) /\ ~scan_log[i][2]
         ELSE \E h \in 1..num_hosts :
                 /\ h < num_hosts
                 /\ task[h].up = "down"
                 /\ task[h].port = Len(ProbePorts)

\* C14: an invalid target is rejected before dispatch.  The step that puts
\* the error line of an invalid target into the output is taken while no
\* worker thread is alive, and leaves the worker reference, the stop flag,
\* the buttons, the sockets and the probe tasks as they were.
C14_InvalidRejectedBeforeDispatch ==
    [][ ("invalid" \in events' /\ "invalid" \notin events) =>
            /\ ~WorkerAlive
            /\ UNCHANGED <<worker, stop_event, scan_btn, sockets, task>> ]_vars

\* A probe has been started: a _scan_port call or a _ping_host thread.
ProbeStarted == PsDispatched # {} \/ \E h \in Hosts : task[h].starts >= 1

\* C15: a Timeout text that is not a positive number is clamped or rejected
\* with an error before any probe starts.  Once a probe has started, the
\* timeout it was given is positive, and if the text typed was not a positive
\* number the output carries an error about it.
C15_TimeoutValidated ==
    ProbeStarted =>
        /\ timeout > 0
        /\ timeout_var \notin PositiveTimeouts => "timeout_error" \in events

\* C16 as stated: within one run no (host, port) target receives more than
\* one connection attempt.
C16_NoRetryAsStated == \A t \in Targets : attempts[t] <= 1

\* The port scanner has found port p open and p is a banner port.
OpenBannerPort(t) ==
    t[1] = 0 /\ t[2] \in BannerPorts /\ <<t[2], TRUE>> \in Range(scan_log)

\* C16, amended: within one run a target whose connection attempt failed is
\* never connected to again, and no target is probed twice; the only second
\* connection is the banner grab, once, to a banner port that _scan_port has
\* just found open.
C16_NoRetry ==
    \A t \in Targets : attempts[t] <= IF OpenBannerPort(t) THEN 2 ELSE 1

\* The run is over; the port scanner has connected twice to an open banner
\* port and once to a port it found closed, the discovery once to each of
\* the probe ports of a host that answered on none.
C16_Witness ==
    /\ worker = "dead"
    /\ IF tool = "PortScannerTool"
         THEN /\ \E t \in Targets : attempts[t] = 2
              /\ \E i \in 1..Len(scan_log) :
                    ~scan_log[i][2] /\ attempts[<<0, scan_log[i][1]>>] = 1
         ELSE \E h \in 1..num_hosts :
                 /\ task[h].up = "down"
                 /\ \A i \in 1..Len(ProbePorts) : attempts[<<h, ProbePorts[i]>>] = 1

\* A run over a target list that is not empty has been started.
RunWithTargets == worker # "none" /\ (num_hosts >= 1 \/ Len(ports) >= 1)

\* C17 as stated, for runs started with the stop flag set: the run does not
\* get to probe its full target list.
C17_StopBeforeRunAsStated == RunWithTargets => ~AllDispatched

\* C17, amended, for runs started with the stop flag set: run_in_thread
\* clears the flag, so the worker never sees it: while the worker is alive
\* and Stop has not been clicked during the run the flag is clear.  The run
\* is an ordinary run: at its end, unless it was stopped during the run or
\* ended through its except clause, it has probed the full target list and
\* reported completion; in every case its results are for dispatched targets
\* only, at most one each.
C17_StopBeforeRunCleared ==
    /\ (WorkerAlive /\ status = "Ready") => ~stop_event
    /\ (RunWithTargets /\ worker = "dead" /\ ~stop_event /\ "error" \notin events) =>
           (OneResultPerTarget /\ "complete" \in events)
    /\ C4_AtMostOneResult

\* stop() was called, then run_tool: the run has ended uncancelled, with
\* every one of its several targets probed.
C17_Witness ==
    /\ worker = "dead" /\ ~stop_event /\ "complete" \in events
    /\ OneResultPerTarget
    /\ num_hosts > max_threads \/ Len(ports) > 1

\* The join loop of _scan_network has returned for every thread.
AllJoined == worker \in {"nd_report", "nd_finally", "dead"} /\ "error" \notin events

\* C18: whatever the interleaving of the _ping_host threads, once they have
\* all been joined hosts_found holds exactly one entry for each host whose
\* probe succeeded and no other entry.
C18_NoLostOrDuplicatedResult ==
    (tool = "NetworkDiscoveryTool" /\ AllJoined) =>
        \A h \in Hosts :
            CopiesIn(h, hosts_found) = IF task[h].up = "up" THEN 1 ELSE 0

\* All threads are joined; at least two of them, of a scan over more hosts
\* than the thread ceiling, have appended, and one has not.
C18_Witness ==
    /\ tool = "NetworkDiscoveryTool" /\ worker = "nd_report" /\ "error" \notin events
    /\ num_hosts > max_threads
    /\ Cardinality({h \in Hosts : task[h].up = "up"}) >= 2
    /\ \E h \in Hosts : task[h].up = "down"

\* The result list of a discovery that found every host, once.
EveryHostOnce == SetToBag(1..num_hosts)

\* C19: on a network on which every connection succeeds, the second of two
\* runs of the same batch on one tool object, when it ends complete, reports
\* every target reachable, once, whatever the first run left behind (a set
\* stop flag, a dead worker, its result list, threads still alive); and if
\* the first run ended complete too, the two result collections are equal.
C19_Idempotence ==
    (run = 2 /\ worker = "dead" /\ "complete" \in events) =>
        IF tool = "NetworkDiscoveryTool"
          THEN /\ hosts_found = EveryHostOnce
               /\ prev.complete => prev.found = hosts_found
          ELSE /\ open_ports = ports
               /\ prev.complete => prev.found = open_ports

\* Two complete runs over several targets have ended.
C19_Witness ==
    /\ run = 2 /\ worker = "dead" /\ "complete" \in events
    /\ prev.complete
    /\ num_hosts > max_threads \/ Len(ports) > 1

\* The worker has ended and has handed control back: status "Ready", Scan
\* enabled.
Returned == worker = "dead" /\ status = "Ready" /\ scan_btn = "normal"

\* C20: every started scan eventually terminates and returns control,
\* whether it runs to its end or Stop is requested at any point.
C20_EventualTermination == WorkerAlive ~> Returned

\* A discovery over more hosts than the thread ceiling, whose throttle loop
\* has waited and let a further host through, was stopped while probes were
\* in flight and has returned control.
C20_Witness ==
    /\ Returned
    /\ stop_event /\ stop_inflight # {}
    /\ num_hosts > max_threads
    /\ \E h \in 1..num_hosts : h > max_threads /\ task[h].starts = 1

\* The probe ports of host h that have been connected to, as indexes.
PortsTried(h) == {i \in 1..Len(ProbePorts) : attempts[<<h, ProbePorts[i]>>] >= 1}

\* C21: _ping_host tries its probe ports in the order 80, 443, 22, 445; on
\* the first successful connect it records the host exactly once and
\* attempts no later port and no ICMP fallback; the ICMP fallback is
\* attempted only after every port attempt failed: while the ping runs, each
\* of the four probe ports has been connected to, once, without success.
C21_FirstSuccessWins ==
    \A h \in Hosts :
        /\ \A i \in PortsTried(h) : \A j \in 1..i : j \in PortsTried(h)
        /\ (task[h].pc = "done" /\ task[h].up = "up") =>
               /\ CopiesIn(h, hosts_found) = 1
               /\ \A i \in PortsTried(h) : i <= task[h].port
        /\ task[h].pc = "icmp" =>
               /\ task[h].up = "none"
               /\ \A i \in 1..Len(ProbePorts) : attempts[<<h, ProbePorts[i]>>] = 1

\* The ports of the _scan_port calls that returned open, in call order.
ProbedOpen ==
    LET sel == SelectSeq(scan_log, LAMBDA e : e[2])
    IN  [i \in 1..Len(sel) |-> sel[i][1]]

C22_ReverseDnsBestEffort ==
    /\ \A h \in Hosts :
         /\ task[h].answered =>
                /\ task[h].up = "up"
                /\ CopiesIn(h, hosts_found) = 1
                /\ task[h].hostname \in {"name", "None"}
         /\ task[h].up = "up" => CopiesIn(h, hosts_found) = 1
    /\ "complete" \in events =>
         {h \in Hosts : task[h].answered} \subseteq shown

\* A discovery has ended complete; it shows a host whose lookup failed after
\* a connect, one whose lookup failed after a ping, and one with a name.
C22_Witness ==
    /\ worker = "dead" /\ "complete" \in events
    /\ \E h \in shown : task[h].hostname = "None" /\ PortsTried(h) # 1..Len(ProbePorts)
    /\ \E h \in shown :
          /\ task[h].hostname = "None"
          /\ \A i \in 1..Len(ProbePorts) : attempts[<<h, ProbePorts[i]>>] = 1
          /\ task[h].port = Len(ProbePorts)
    /\ \E h \in shown : task[h].hostname = "name"

\* C25: a stop request is never erased while its run is active.  A step
\* that takes stop_event from set to clear is a run_in_thread call that
\* starts a run, and it is taken while no worker thread and no _ping_host
\* task of an earlier run is alive.
C25_StopNeverErased ==
    [][ (stop_event /\ ~stop_event') =>
            /\ Len(ret_log') = Len(ret_log) + 1
            /\ ~WorkerAlive
            /\ InFlight = {} ]_vars

\* C24: the port scanner can always be restarted: in every reachable state
\* in which no worker thread is alive, Scan is enabled (and Stop, its
\* opposite, disabled).
C24_Restartable ==
    (tool = "PortScannerTool" /\ ~WorkerAlive) => scan_btn = "normal"

\* A step in which run_in_thread is called while the worker is alive.
CalledWhileAlive == WorkerAlive /\ Len(ret_log') = Len(ret_log) + 1

\* C23: one worker per tool.  After any sequence of run_in_thread calls and
\* worker completions at most one worker thread of the tool is alive, and a
\* call made while a worker is alive returns False, starts nothing, and
\* leaves stop_event and worker_thread as they are.
C23_SingleWorker ==
    /\ [](strays = 0)
    /\ [][ CalledWhileAlive =>
              /\ ret_log'[Len(ret_log')] = FALSE
              /\ UNCHANGED <<worker, stop_event, strays, record_i>> ]_vars

\* A worker was started, a call made while it ran was refused, and after
\* its end a third call has started a worker.
C23_Witness ==
    /\ ret_log = <<TRUE, FALSE, TRUE>>
    /\ WorkerAlive
    /\ strays = 0

\* C26: a rejected start has no visible effect.  A step in which run_tool
\* or query_all_records is invoked while the tool's worker is alive, so that
\* run_in_thread refuses, leaves the output area and the buttons as they
\* were.
C26_RejectedStartInvisible ==
    [][ CalledWhileAlive => UNCHANGED <<output, events, shown, scan_btn>> ]_vars

\* The interval x lies in 0.5..60.
InsideRange(x) == ~x.raises /\ ~x.nan /\ x.tenths >= 5 /\ x.tenths <= 600

\* The updates the monitor has printed.
Updates(out) == SelectSeq(out, LAMBDA line : line[1] = "update")

\* C28: toggle_monitor never starts a second monitor thread while one is
\* alive: it calls run_in_thread only while none is alive, and a click while
\* one is alive requests stop.  Once the monitor loop has found the stop
\* flag set, the thread takes no further sample and prints no further
\* update.  And
\* start_monitor with an interval that is not within 0.5..60 starts no
\* thread and leaves the button text as it was.
C28_MonitorToggle ==
    /\ [](strays = 0)
    /\ [][ (WorkerAlive /\ worker' = worker /\ monitor_btn' # monitor_btn) =>
              (stop_event' /\ ret_log' = ret_log) ]_vars
    /\ [][ WorkerAlive => ret_log' = ret_log ]_vars
    /\ [][ (WorkerAlive /\ observed) =>
              (samples' = samples /\ Updates(output') = Updates(output)) ]_vars
    /\ [][ (~WorkerAlive /\ ~InsideRange(ParseFloat(interval_var'))) =>
              (worker' = worker /\ ret_log' = ret_log /\ monitor_btn' = monitor_btn) ]_vars

\* C29: the configuration defaults are never modified.  After any sequence
\* of constructions, loads, saves and sets DEFAULT_CONFIG holds its original
\* values; and a set or load on one ConfigManager changes what get returns
\* on no other one.
C29_DefaultsNeverModified ==
    /\ [](\A s \in DefaultSections :
             /\ DEFAULT_CONFIG[s] = 0
             /\ dicts[<<0, s>>] = DefaultValues[s])
    /\ [][ made' = made =>
              \E i \in Instances : \A j \in Instances \ {i} :
                  \A s \in Sections : \A k \in Keys :
                      Get(config'[j], dicts', s, k) = Get(config[j], dicts, s, k) ]_vars

\* C30: Wake-on-LAN history uniqueness.  However save_mac, remove_mac and
\* the history update of _send_wol_packet interleave, mac_history never
\* holds two entries with the same MAC string; save_mac for a MAC that is
\* saved changes that entry's name only and not the length; remove_mac
\* deletes the entry the selected row shows, and no other.
SavedAt(mac) == {i \in 1..Len(mac_history) : mac_history[i].mac = mac}
C30_HistoryUnique ==
    /\ [](\A i, j \in 1..Len(mac_history) :
             i # j => mac_history[i].mac # mac_history[j].mac)
    /\ [][ \A mac \in MacTexts : \A name \in NameTexts :
              (save_mac(mac, name) /\ SavedAt(mac) # {}) =>
                  /\ Len(mac_history') = Len(mac_history)
                  /\ \E i \in SavedAt(mac) :
                        /\ mac_history'[i].mac = mac
                        /\ \A j \in 1..Len(mac_history) \ {i} :
                              mac_history'[j] = mac_history[j] ]_vars
    /\ [][ \A index \in 1..(MaxCalls + Cardinality(MacTexts)) :
              remove_mac(index) =>
                  /\ index <= Len(mac_history)
                  /\ history_listbox[index] = mac_history[index]
                  /\ mac_history' = RemoveAt(mac_history, index) ]_vars

\* The steps of the workers, the probe threads, the Stop button and the
\* runtime, and the clicks on Scan that run_tool rejects.
Steps ==
    \/ NdRunToolEmpty
    \/ NdRunToolMalformed
    \/ StopScan
    \/ NdInvalidRange
    \/ NdFor
    \/ NdThrottle
    \/ NdStartThread
    \/ NdStartFails
    \/ NdJoin
    \/ NdReport
    \/ NdFinally
    \/ \E h \in Hosts : PingCheck(h)
    \/ \E h \in Hosts : PingConnect(h)
    \/ \E h \in Hosts : PingIcmpDone(h)
    \/ PsRunToolInvalid
    \/ PsFor
    \/ PsScanPort
    \/ PsGrabBanner
    \/ PsSummary
    \/ PsFinally
    \/ Finalize

\* Runs with a positive number in the Timeout field.
Next ==
    \/ NdRunTool
    \/ PsRunTool
    \/ Steps

Spec == Init /\ [][Next]_vars

\* The worker thread takes its next step.
WorkerStep ==
    \/ NdInvalidRange \/ NdFor \/ NdThrottle \/ NdStartThread \/ NdStartFails
    \/ NdJoin \/ NdReport \/ NdFinally
    \/ PsFor \/ PsScanPort \/ PsGrabBanner \/ PsSummary \/ PsFinally

\* The _ping_host thread of host h takes its next step.
PingStep(h) == PingCheck(h) \/ PingConnect(h) \/ PingIcmpDone(h)

\* Every thread that can run does run, and every connect, recv and ping
\* subprocess comes to its end (each has a timeout).
SpecFair ==
    /\ Spec
    /\ WF_vars(WorkerStep)
    /\ \A h \in Hosts : WF_vars(PingStep(h))

\* Runs with any text in the Timeout field.
NextAnyTimeout ==
    \/ NdRunToolAnyTimeout
    \/ PsRunToolAnyTimeout
    \/ Steps

SpecAnyTimeout == Init /\ [][NextAnyTimeout]_vars

\* Runs started with the stop flag set: stop(), then run_tool.
NextAfterStop ==
    \/ Stop
    \/ NdRunToolAfterStop
    \/ PsRunToolAfterStop
    \/ Steps

SpecAfterStop == Init /\ [][NextAfterStop]_vars

\* Two runs in succession on one tool object, on a network on which every
\* connection succeeds.
NextTwice ==
    \/ NdRunTool
    \/ PsRunTool
    \/ NdRunAgain
    \/ PsRunAgain
    \/ \E h \in Hosts : OrphanCheck(h)
    \/ \E h \in Hosts : OrphanConnect(h)
    \/ \E h \in Hosts : OrphanIcmpDone(h)
    \/ Steps

SpecTwice == InitAlwaysUp /\ [][NextTwice]_vars

\* The discovery tool after construction, on a network on which a reverse
\* lookup may fail.
InitLookup == Constructed("rdns_any") /\ tool = "NetworkDiscoveryTool"

\* One discovery run.
NextLookup ==
    \/ NdRunTool
    \/ NdRunToolEmpty
    \/ NdRunToolMalformed
    \/ StopScan
    \/ NdInvalidRange
    \/ NdFor
    \/ NdThrottle
    \/ NdStartThread
    \/ NdStartFails
    \/ NdJoin
    \/ NdReport
    \/ NdFinally
    \/ \E h \in Hosts : PingCheck(h)
    \/ \E h \in Hosts : PingConnect(h)
    \/ \E h \in Hosts : PingIcmpDone(h)

SpecLookup == InitLookup /\ [][NextLookup]_vars

\* The port scanner after construction.
InitRestart == Constructed("any") /\ tool = "PortScannerTool"

\* The port scanner under clicks on Scan and Stop at any moment at which
\* the button is enabled, its finally clause taken statement by statement.
NextRestart ==
    \/ PsClickScan
    \/ StopScan
    \/ PsFor
    \/ PsScanPort
    \/ PsGrabBanner
    \/ PsSummary
    \/ PsFinallyButtons
    \/ PsFinallyStatus
    \/ Finalize

SpecRestart == InitRestart /\ [][NextRestart]_vars

\* The DNS lookup tool after construction.
InitDns == Constructed("any") /\ tool = "DNSLookupTool"

\* The DNS lookup tool under clicks on its two buttons at any moment.
NextDns ==
    \/ DnsRunTool
    \/ DnsQueryAllRecords
    \/ DnsNoDomain
    \/ StopCall
    \/ DnsLookup
    \/ DnsLookupAll
    \/ DnsFinally

SpecDns == InitDns /\ [][NextDns]_vars

\* The bandwidth monitor after construction.
InitMonitor == Constructed("any") /\ tool = "BandwidthMonitorTool"

\* The bandwidth monitor under clicks on its button at any moment.
NextMonitor ==
    \/ BwToggleMonitor
    \/ BwBegin
    \/ BwWhile
    \/ BwWake
    \/ BwAfter
    \/ BwFinally

SpecMonitor == InitMonitor /\ [][NextMonitor]_vars

\* No ConfigManager constructed yet, no config.ini.
InitConfig == Constructed("any") /\ tool = "ConfigManager"

\* Constructions and calls of load, save and set in any order.
NextConfig ==
    \/ CmInit
    \/ \E i \in Instances : CmLoad(i)
    \/ \E i \in Instances : CmSave(i)
    \/ \E i \in Instances : \E s \in Sections : \E k \in Keys : \E v \in SetValues :
          CmSet(i, s, k, v)

SpecConfig == InitConfig /\ [][NextConfig]_vars

\* The Wake-on-LAN tool with an empty history.
InitWol == Constructed("any") /\ tool = "WakeOnLanTool"

\* Clicks on Send, Save and Remove at any moment, and the worker's steps.
NextWol ==
    \/ \E mac \in MacTexts : WolRunTool(mac)
    \/ \E mac \in MacTexts : \E name \in NameTexts : save_mac(mac, name)
    \/ \E index \in 1..(MaxCalls + Cardinality(MacTexts)) : remove_mac(index)
    \/ WolSend
    \/ WolCheck
    \/ WolAppend
    \/ WolDelete
    \/ WolInsert
    \/ WolFinally

SpecWol == InitWol /\ [][NextWol]_vars
====
